---- MODULE Spec2Model ----
(***************************************************************************)
(* tmp_core: ThreadPool (thread_pool.rs), TaskCompletion and TaskGraph     *)
(* (task_graph.rs).  Thread 0 is the thread that owns the pool / the       *)
(* graph; threads 1..size are the pool's workers.                          *)
(***************************************************************************)
EXTENDS Integers, Sequences, FiniteSets, TLC

\* ------------------------------------------------------------------ bounds
MaxWorkers == 2    \* pool sizes 1..MaxWorkers
MaxTasks == 3      \* add_task calls per graph
MaxEdges == 2      \* add_dependency calls per graph
MaxJobs == 3       \* ThreadPool::execute calls of a direct pool user
MaxJoins == 2      \* explicit ThreadPool::join calls of a direct pool user
MaxExecutes == 2   \* TaskGraph::execute calls per graph

\* usize::MAX, the value a wrapping `-= 1` of 0 yields in a release build
UsizeMax == 2147483647

Driver == 0
NoThread == -1
\* the thread that calls execute_job_from_queue
Helper == MaxWorkers + 1

\* TaskId values handed to add_dependency: ids this graph issues
\* (0..MaxTasks-1) and one it never issues (MaxTasks), e.g. an id of another graph.
TaskIds == 0..MaxTasks
JobIds == 0..(MaxTasks + MaxJobs)

VARIABLES
    \* ThreadPool
    size,                   \* number of workers (ThreadPool::new(size))
    queue,                  \* mpsc channel: messages sent and not yet received
    rlock,                  \* holder of the receiver mutex, or NoThread
    workers,                \* workers[w]: Worker.thread is Some (handle not yet taken)
    wpc,                    \* position of each worker thread
    wjob,                   \* the message a worker is processing
    \* TaskGraph
    tasks,                  \* registry: ids present in `tasks`
    action,                 \* action[id]: "ok" returns, "panic" panics (the closure given)
    next_id,
    dependencies,           \* HashMap<TaskId, Vec<TaskId>>: function on its keys
    reverse_dependencies,
    \* TaskGraph::execute locals, TaskCompletion objects
    task_groups,            \* Vec<Vec<TaskId>> returned by group_tasks
    gi,                     \* index of the group being dispatched (1-based)
    ti,                     \* index of the next task of the group
    completion,             \* completion[b]: the TaskCompletion of group b
    \* owner thread
    dpc,                    \* position of thread 0
    ji,                     \* loop index inside join()
    in_drop,                \* the running join() was called by Drop
    joins,                  \* explicit join() calls made so far
    executes,               \* TaskGraph::execute calls begun so far
    exec_result,            \* how TaskGraph::execute ended: "none", "returned", "panicked"
    \* a thread that calls execute_job_from_queue
    hpc,                    \* its position; "none": it holds no receiver
    hjob,                   \* the message it is processing
    \* observation of the run
    submitted,              \* number of ThreadPool::execute calls so far
    late,                   \* job ids passed to ThreadPool::execute after a join() began
    started,                \* started[id]: how many times the action / job was started
    finished,               \* ids whose action / job returned
    panicked,               \* ids whose action / job panicked
    signaled                \* signaled[id]: how many task_completed() calls its wrapper made

poolVars == <<size, queue, rlock, workers, wpc, wjob>>
graphVars == <<tasks, action, next_id, dependencies, reverse_dependencies>>
execVars == <<task_groups, gi, ti, completion, exec_result>>
ownerVars == <<dpc, ji, in_drop, joins, executes>>
helperVars == <<hpc, hjob>>
obsVars == <<submitted, late, started, finished, panicked, signaled>>
vars == <<poolVars, graphVars, execVars, ownerVars, helperVars, obsVars>>

Workers == 1..size

\* ------------------------------------------------------------------ helpers
Range(s) == {s[i] : i \in 1..Len(s)}

Max(S) == CHOOSE x \in S : \A y \in S : y <= x

\* every order in which a HashMap may iterate over the keys S
Orders(S) == {s \in [1..Cardinality(S) -> S] : \A i, j \in 1..Cardinality(S) : i # j => s[i] # s[j]}

\* HashMap::get: the entry's Vec, or nothing
Get(map, k) == IF k \in DOMAIN map THEN map[k] ELSE <<>>

\* map.entry(k).or_insert_with(Vec::new).push(v)
PushEntry(map, k, v) == (k :> Append(Get(map, k), v)) @@ map

JobMsg(id, b) == [kind |-> "Job", id |-> id, completion |-> b]
Terminate == [kind |-> "Terminate", id |-> -1, completion |-> 0]
NoMsg == [kind |-> "None", id |-> -1, completion |-> 0]

\* ------------------------------------------------------------------ TaskCompletion
\* a barrier sized to the pool's capacity instead of the group
NewCompletionCapped(n) ==
    [count |-> IF n > size THEN size ELSE n, lock |-> NoThread, poisoned |-> FALSE, waiting |-> {}]

\* TaskCompletion::new(count)
NewCompletion(n) == [count |-> n, lock |-> NoThread, poisoned |-> FALSE, waiting |-> {}]

\* ------------------------------------------------------------------ TaskGraph: planning
\* number of add_dependency calls made so far
NumEdges == Cardinality({<<t, i>> \in (DOMAIN dependencies) \X (1..MaxEdges) : i <= Len(dependencies[t])})

\* the in-degree counts the distinct prerequisites, not the recorded edges
InDegreeDistinct ==
    [t \in tasks \cup DOMAIN dependencies |-> Cardinality(Range(Get(dependencies, t)))]

\* topological_sort, lines 173-179: in_degree after the two insertion loops
InDegree == [t \in tasks \cup DOMAIN dependencies |-> Len(Get(dependencies, t))]

\* topological_sort, lines 181-185: the keys the seeding loop pushes, in HashMap order
ZeroInDegree == {t \in DOMAIN InDegree : InDegree[t] = 0}

\* a dependent is enqueued only below zero, that is never
RECURSIVE VisitDependentsNeverReady(_, _, _)
VisitDependentsNeverReady(deps, i, st) ==
    IF i > Len(deps) THEN st
    ELSE LET dep == deps[i]
             cur == IF dep \in DOMAIN st.in_degree THEN st.in_degree[dep] ELSE 0
             count == IF cur = 0 THEN UsizeMax ELSE cur - 1
         IN VisitDependentsNeverReady(deps, i + 1,
                [st EXCEPT !.in_degree = (dep :> count) @@ @,
                           !.queue = IF count < 0 THEN Append(@, dep) ELSE @,
                           !.underflow = @ \/ cur = 0])

\* a dependent is enqueued while one of its prerequisites is still outstanding
RECURSIVE VisitDependentsAtOne(_, _, _)
VisitDependentsAtOne(deps, i, st) ==
    IF i > Len(deps) THEN st
    ELSE LET dep == deps[i]
             cur == IF dep \in DOMAIN st.in_degree THEN st.in_degree[dep] ELSE 0
             count == IF cur = 0 THEN UsizeMax ELSE cur - 1
         IN VisitDependentsAtOne(deps, i + 1,
                [st EXCEPT !.in_degree = (dep :> count) @@ @,
                           !.queue = IF count <= 1 THEN Append(@, dep) ELSE @,
                           !.underflow = @ \/ cur = 0])

\* a dependent is enqueued at every decrement, not only at zero
RECURSIVE VisitDependentsEager(_, _, _)
VisitDependentsEager(deps, i, st) ==
    IF i > Len(deps) THEN st
    ELSE LET dep == deps[i]
             cur == IF dep \in DOMAIN st.in_degree THEN st.in_degree[dep] ELSE 0
             count == IF cur = 0 THEN UsizeMax ELSE cur - 1
         IN VisitDependentsEager(deps, i + 1,
                [st EXCEPT !.in_degree = (dep :> count) @@ @,
                           !.queue = Append(@, dep),
                           !.underflow = @ \/ cur = 0])

\* topological_sort, lines 191-197: `for &dep in deps` over reverse_dependencies[task].
\* `*count -= 1` on a usize 0 wraps in a release build (underflow records it; a
\* debug build panics there).
RECURSIVE VisitDependents(_, _, _)
VisitDependents(deps, i, st) ==
    IF i > Len(deps) THEN st
    ELSE LET dep == deps[i]
             cur == IF dep \in DOMAIN st.in_degree THEN st.in_degree[dep] ELSE 0
             count == IF cur = 0 THEN UsizeMax ELSE cur - 1
         IN VisitDependents(deps, i + 1,
                [st EXCEPT !.in_degree = (dep :> count) @@ @,
                           !.queue = IF count <= 0 THEN Append(@, dep) ELSE @,
                           !.underflow = @ \/ cur = 0])

\* topological_sort, lines 187-199: `while let Some(task) = queue.pop_front()`
RECURSIVE KahnLoop(_)
KahnLoop(st) ==
    IF st.queue = <<>> THEN st
    ELSE LET task == Head(st.queue)
             popped == [st EXCEPT !.queue = Tail(@), !.sorted = Append(@, task)]
         IN KahnLoop(VisitDependents(Get(reverse_dependencies, task), 1, popped))

\* topological_sort; seeds is the order in which the zero in-degree keys were pushed
topological_sort(seeds) ==
    KahnLoop([in_degree |-> InDegree, queue |-> seeds, sorted |-> <<>>, underflow |-> FALSE])

\* a dependent gets its position in the sorted sequence as its level
RECURSIVE AssignLevelsByPosition(_, _, _)
AssignLevelsByPosition(sorted_tasks, i, st) ==
    IF i > Len(sorted_tasks) THEN st
    ELSE LET task_id == sorted_tasks[i]
             deps == Get(dependencies, task_id)
             found == \A k \in 1..Len(deps) : deps[k] \in DOMAIN st.levels
             level == IF deps = <<>> \/ ~found THEN 0 ELSE i - 1
         IN AssignLevelsByPosition(sorted_tasks, i + 1,
                [levels |-> (task_id :> level) @@ st.levels,
                 missing |-> st.missing \/ ~found])

\* a dependent gets the level of its deepest prerequisite, not the next one
RECURSIVE AssignLevelsSame(_, _, _)
AssignLevelsSame(sorted_tasks, i, st) ==
    IF i > Len(sorted_tasks) THEN st
    ELSE LET task_id == sorted_tasks[i]
             deps == Get(dependencies, task_id)
             found == \A k \in 1..Len(deps) : deps[k] \in DOMAIN st.levels
             level == IF deps = <<>> \/ ~found THEN 0
                      ELSE Max({st.levels[deps[k]] : k \in 1..Len(deps)})
         IN AssignLevelsSame(sorted_tasks, i + 1,
                [levels |-> (task_id :> level) @@ st.levels,
                 missing |-> st.missing \/ ~found])

\* group_tasks, lines 217-225: levels of the sorted tasks; missing records a
\* `levels[dep]` lookup of an absent key (a panic)
RECURSIVE AssignLevels(_, _, _)
AssignLevels(sorted_tasks, i, st) ==
    IF i > Len(sorted_tasks) THEN st
    ELSE LET task_id == sorted_tasks[i]
             deps == Get(dependencies, task_id)
             found == \A k \in 1..Len(deps) : deps[k] \in DOMAIN st.levels
             level == IF deps = <<>> \/ ~found THEN 0
                      ELSE Max({st.levels[deps[k]] + 1 : k \in 1..Len(deps)})
         IN AssignLevels(sorted_tasks, i + 1,
                [levels |-> (task_id :> level) @@ st.levels,
                 missing |-> st.missing \/ ~found])

LevelsOf(sorted_tasks) == AssignLevels(sorted_tasks, 1, [levels |-> <<>>, missing |-> FALSE])

\* the groups are indexed by level + 1 although the vector starts at 0
group_tasksShifted(levels, order) ==
    LET max_level == Max({0} \cup {levels[t] : t \in DOMAIN levels})
    IN [l \in 1..(max_level + 1) |-> SelectSeq(order, LAMBDA t : levels[t] = l)]

\* group_tasks, lines 227-232: order is the order in which `levels` is iterated
group_tasks(levels, order) ==
    LET max_level == Max({0} \cup {levels[t] : t \in DOMAIN levels})
    IN [l \in 1..(max_level + 1) |-> SelectSeq(order, LAMBDA t : levels[t] = l - 1)]

\* ------------------------------------------------------------------ ThreadPool
\* self.sender.send(msg).unwrap(): the pool keeps its own Arc of the receiver, so
\* the channel is never closed while the pool exists and send always succeeds
Send(q, msg) == Append(q, msg)

\* execute hands the job over only to a worker already waiting in recv()
PoolExecuteRendezvous(id, b) ==
    /\ \E w \in Workers : wpc[w] = "recv"
    /\ queue' = Send(queue, JobMsg(id, b))
    /\ submitted' = submitted + 1
    /\ late' = IF joins > 0 THEN late \cup {id} ELSE late

\* ThreadPool::execute(f)
PoolExecute(id, b) ==
    /\ queue' = Send(queue, JobMsg(id, b))
    /\ submitted' = submitted + 1
    /\ late' = IF joins > 0 THEN late \cup {id} ELSE late

\* ------------------------------------------------------------------ Worker threads
\* Worker::new line 115: receiver.lock()
WorkerLock(w) ==
    /\ wpc[w] = "lock"
    /\ rlock = NoThread
    /\ rlock' = w
    /\ wpc' = [wpc EXCEPT ![w] = "recv"]
    /\ UNCHANGED <<size, queue, workers, wjob, graphVars, execVars, ownerVars, helperVars, obsVars>>

\* recv() hands out the newest message instead of the oldest
WorkerRecvNewest(w) ==
    /\ wpc[w] = "recv"
    /\ queue # <<>>
    /\ LET message == queue[Len(queue)]
       IN /\ queue' = SubSeq(queue, 1, Len(queue) - 1)
          /\ rlock' = NoThread
          /\ IF message.kind = "Job"
               THEN /\ wpc' = [wpc EXCEPT ![w] = "run"]
                    /\ wjob' = [wjob EXCEPT ![w] = message]
                    /\ started' = [started EXCEPT ![message.id] = @ + 1]
               ELSE /\ wpc' = [wpc EXCEPT ![w] = "exited"]
                    /\ UNCHANGED <<wjob, started>>
    /\ UNCHANGED <<size, workers, graphVars, execVars, ownerVars, helperVars,
                   submitted, late, finished, panicked, signaled>>

\* recv() reads the oldest message and leaves it in the channel
WorkerRecvPeeks(w) ==
    /\ wpc[w] = "recv"
    /\ queue # <<>>
    /\ LET message == Head(queue)
       IN /\ rlock' = NoThread
          /\ IF message.kind = "Job"
               THEN /\ wpc' = [wpc EXCEPT ![w] = "run"]
                    /\ wjob' = [wjob EXCEPT ![w] = message]
                    /\ started' = [started EXCEPT ![message.id] = @ + 1]
               ELSE /\ wpc' = [wpc EXCEPT ![w] = "exited"]
                    /\ UNCHANGED <<wjob, started>>
    /\ UNCHANGED <<size, queue, workers, graphVars, execVars, ownerVars, helperVars,
                   submitted, late, finished, panicked, signaled>>

\* the receiver guard lives as long as the message: the job runs under the lock
WorkerRecvKeepsLock(w) ==
    /\ wpc[w] = "recv"
    /\ queue # <<>>
    /\ LET message == Head(queue)
       IN /\ queue' = Tail(queue)
          /\ IF message.kind = "Job"
               THEN /\ wpc' = [wpc EXCEPT ![w] = "run"]
                    /\ wjob' = [wjob EXCEPT ![w] = message]
                    /\ started' = [started EXCEPT ![message.id] = @ + 1]
                    /\ UNCHANGED rlock
               ELSE /\ wpc' = [wpc EXCEPT ![w] = "exited"]
                    /\ rlock' = NoThread
                    /\ UNCHANGED <<wjob, started>>
    /\ UNCHANGED <<size, workers, graphVars, execVars, ownerVars, helperVars,
                   submitted, late, finished, panicked, signaled>>

\* Worker::new lines 115-125: recv() under the receiver lock; the guard is released
\* at the end of the `let`, before the job is run; Terminate leaves the loop
WorkerRecv(w) ==
    /\ wpc[w] = "recv"
    /\ queue # <<>>
    /\ LET message == Head(queue)
       IN /\ queue' = Tail(queue)
          /\ rlock' = NoThread
          /\ IF message.kind = "Job"
               THEN /\ wpc' = [wpc EXCEPT ![w] = "run"]
                    /\ wjob' = [wjob EXCEPT ![w] = message]
                    /\ started' = [started EXCEPT ![message.id] = @ + 1]
               ELSE /\ wpc' = [wpc EXCEPT ![w] = "exited"]
                    /\ UNCHANGED <<wjob, started>>
    /\ UNCHANGED <<size, workers, graphVars, execVars, ownerVars, helperVars,
                   submitted, late, finished, panicked, signaled>>

\* job() returns: a plain job is over; a TaskGraph wrapper (execute, lines 247-250)
\* goes on to completion_clone.task_completed()
JobReturns(w) ==
    /\ wpc[w] = "run"
    /\ action[wjob[w].id] = "ok"
    /\ finished' = finished \cup {wjob[w].id}
    /\ IF wjob[w].completion = 0
         THEN /\ wpc' = [wpc EXCEPT ![w] = "lock"]
              /\ wjob' = [wjob EXCEPT ![w] = NoMsg]
         ELSE /\ wpc' = [wpc EXCEPT ![w] = "signal_lock"]
              /\ UNCHANGED wjob
    /\ UNCHANGED <<size, queue, rlock, workers, graphVars, execVars, ownerVars, helperVars,
                   submitted, late, started, panicked, signaled>>

\* job() panics: the worker thread unwinds and ends (the receiver guard was
\* already released, so the receiver mutex is not poisoned)
JobPanics(w) ==
    /\ wpc[w] = "run"
    /\ action[wjob[w].id] = "panic"
    /\ panicked' = panicked \cup {wjob[w].id}
    /\ wpc' = [wpc EXCEPT ![w] = "panicked"]
    /\ wjob' = [wjob EXCEPT ![w] = NoMsg]
    /\ UNCHANGED <<size, queue, rlock, workers, graphVars, execVars, ownerVars, helperVars,
                   submitted, late, started, finished, signaled>>

\* task_completed, lines 31-37: self.count.lock(); a poisoned lock returns early
TaskCompletedLock(w) ==
    /\ wpc[w] = "signal_lock"
    /\ LET b == wjob[w].completion
       IN /\ completion[b].lock = NoThread
          /\ IF completion[b].poisoned
               THEN /\ wpc' = [wpc EXCEPT ![w] = "lock"]
                    /\ wjob' = [wjob EXCEPT ![w] = NoMsg]
                    /\ UNCHANGED completion
               ELSE /\ wpc' = [wpc EXCEPT ![w] = "signal"]
                    /\ completion' = [completion EXCEPT ![b].lock = w]
                    /\ UNCHANGED wjob
    /\ UNCHANGED <<size, queue, rlock, workers, graphVars, task_groups, gi, ti,
                   exec_result, ji, in_drop, joins, executes, helperVars, dpc, obsVars>>

\* the last task_completed() wakes nobody
NotifiedNobody(c, pc) == pc

\* what notify_all does to the thread that is blocked in condvar.wait
Notified(c, pc) == IF Driver \in c.waiting THEN "wait_lock" ELSE pc

\* the decrement is guarded by `*count > 1`: the last signal is not counted
TaskCompletedSkipsLast(w) ==
    /\ wpc[w] = "signal"
    /\ LET b == wjob[w].completion
           cur == completion[b].count
           nxt == IF cur > 1 THEN cur - 1 ELSE cur
       IN /\ completion' = [completion EXCEPT
                 ![b].lock = NoThread,
                 ![b].count = nxt,
                 ![b].waiting = IF nxt = 0 THEN {} ELSE @]
          /\ dpc' = IF nxt = 0 THEN Notified(completion[b], dpc) ELSE dpc
          /\ wpc' = [wpc EXCEPT ![w] = "lock"]
          /\ signaled' = [signaled EXCEPT ![wjob[w].id] = @ + 1]
    /\ wjob' = [wjob EXCEPT ![w] = NoMsg]
    /\ UNCHANGED <<size, queue, rlock, workers, graphVars, task_groups, gi, ti,
                   exec_result, ji, in_drop, joins, executes, helperVars,
                   submitted, late, started, finished, panicked>>

\* task_completed, lines 38-42: `*count -= 1`, notify_all at zero, unlock.
\* A decrement of 0 panics under the lock in a debug build (poisoning the
\* mutex) and wraps in a release build.
TaskCompleted(w) ==
    /\ wpc[w] = "signal"
    /\ LET b == wjob[w].completion
           cur == completion[b].count
       IN IF cur = 0
            THEN \E build \in {"debug", "release"} :
                   IF build = "debug"
                     THEN /\ completion' = [completion EXCEPT ![b].lock = NoThread,
                                                              ![b].poisoned = TRUE]
                          /\ wpc' = [wpc EXCEPT ![w] = "panicked"]
                          /\ UNCHANGED <<dpc, signaled>>
                     ELSE /\ completion' = [completion EXCEPT ![b].lock = NoThread,
                                                              ![b].count = UsizeMax]
                          /\ wpc' = [wpc EXCEPT ![w] = "lock"]
                          /\ signaled' = [signaled EXCEPT ![wjob[w].id] = @ + 1]
                          /\ UNCHANGED dpc
            ELSE /\ completion' = [completion EXCEPT
                        ![b].lock = NoThread,
                        ![b].count = cur - 1,
                        ![b].waiting = IF cur - 1 = 0 THEN {} ELSE @]
                 /\ dpc' = IF cur - 1 = 0 THEN Notified(completion[b], dpc) ELSE dpc
                 /\ wpc' = [wpc EXCEPT ![w] = "lock"]
                 /\ signaled' = [signaled EXCEPT ![wjob[w].id] = @ + 1]
    /\ wjob' = [wjob EXCEPT ![w] = NoMsg]
    /\ UNCHANGED <<size, queue, rlock, workers, graphVars, task_groups, gi, ti,
                   exec_result, ji, in_drop, joins, executes, helperVars,
                   submitted, late, started, finished, panicked>>

\* ------------------------------------------------------------------ TaskGraph: building
\* the id is taken from the number of tasks in the registry
InsertTaskByLen(act) ==
    /\ next_id < MaxTasks
    /\ tasks' = tasks \cup {Cardinality(tasks)}
    /\ action' = [action EXCEPT ![Cardinality(tasks)] = act]
    /\ next_id' = next_id + 1
    /\ UNCHANGED <<dependencies, reverse_dependencies, poolVars, execVars, ownerVars, helperVars, obsVars>>

\* add_task, lines 131-142: the id is next_id, next_id is incremented, the task
\* is inserted under the id, the id is returned
InsertTask(act) ==
    /\ next_id < MaxTasks
    /\ tasks' = tasks \cup {next_id}
    /\ action' = [action EXCEPT ![next_id] = act]
    /\ next_id' = next_id + 1
    /\ UNCHANGED <<dependencies, reverse_dependencies, poolVars, execVars, ownerVars, helperVars, obsVars>>

\* TaskGraph::add_task(name, action), called before execute()
add_task(act) ==
    /\ dpc = "building"
    /\ InsertTask(act)

\* TaskGraph::add_task(name, action), called after an execute() has returned
add_task_later(act) ==
    /\ dpc = "done"
    /\ InsertTask(act)

\* only the forward map is updated
PushDependencyForwardOnly(task_id, dependency_id) ==
    /\ NumEdges < MaxEdges
    /\ dependencies' = PushEntry(dependencies, task_id, dependency_id)
    /\ UNCHANGED <<reverse_dependencies, tasks, action, next_id, poolVars, execVars, ownerVars, helperVars, obsVars>>

\* the edge is recorded only between two distinct registered tasks
PushDependencyChecked(task_id, dependency_id) ==
    /\ NumEdges < MaxEdges
    /\ task_id \in tasks /\ dependency_id \in tasks /\ task_id # dependency_id
    /\ dependencies' = PushEntry(dependencies, task_id, dependency_id)
    /\ reverse_dependencies' = PushEntry(reverse_dependencies, dependency_id, task_id)
    /\ UNCHANGED <<tasks, action, next_id, poolVars, execVars, ownerVars, helperVars, obsVars>>

\* add_dependency, lines 152-159: both maps get the edge, no id is validated
PushDependency(task_id, dependency_id) ==
    /\ NumEdges < MaxEdges
    /\ dependencies' = PushEntry(dependencies, task_id, dependency_id)
    /\ reverse_dependencies' = PushEntry(reverse_dependencies, dependency_id, task_id)
    /\ UNCHANGED <<tasks, action, next_id, poolVars, execVars, ownerVars, helperVars, obsVars>>

\* TaskGraph::add_dependency(task_id, dependency_id), called before execute()
add_dependency(task_id, dependency_id) ==
    /\ dpc = "building"
    /\ PushDependency(task_id, dependency_id)

\* TaskGraph::add_dependency(task_id, dependency_id), called after an execute()
\* has returned
add_dependency_later(task_id, dependency_id) ==
    /\ dpc = "done"
    /\ PushDependency(task_id, dependency_id)

\* ------------------------------------------------------------------ TaskGraph::execute
\* execute, lines 239-240: topological_sort and group_tasks, for every iteration
\* order of the hash maps; an arithmetic underflow (debug build) or a missing
\* `levels[dep]` panics
PlanGroups ==
    /\ executes' = executes + 1
    /\ \E seeds \in Orders(ZeroInDegree) :
         LET st == topological_sort(seeds)
             lv == LevelsOf(st.sorted)
         IN \E build \in (IF st.underflow THEN {"debug", "release"} ELSE {"release"}) :
            IF build = "debug" \/ lv.missing
              THEN /\ dpc' = "panicked"
                   /\ exec_result' = "panicked"
                   /\ UNCHANGED <<task_groups, gi>>
              ELSE /\ \E order \in Orders(DOMAIN lv.levels) :
                        task_groups' = group_tasks(lv.levels, order)
                   /\ gi' = 1
                   /\ dpc' = "group"
                   /\ UNCHANGED exec_result
    /\ UNCHANGED <<ti, completion, ji, in_drop, joins, helperVars, poolVars, graphVars, obsVars>>

\* the first execute() on a graph
ExecutePlan ==
    /\ dpc = "building"
    /\ PlanGroups

\* execute, lines 242-243: next iteration of `for group in task_groups`, creating
\* the group's TaskCompletion; after the last group execute returns
ExecuteGroup ==
    /\ dpc = "group"
    /\ IF gi > Len(task_groups)
         THEN /\ dpc' = "done"
              /\ exec_result' = "returned"
              /\ UNCHANGED <<completion, ti>>
         ELSE /\ completion' = Append(completion, NewCompletion(Len(task_groups[gi])))
              /\ ti' = 1
              /\ dpc' = "submit"
              /\ UNCHANGED exec_result
    /\ UNCHANGED <<task_groups, gi, ji, in_drop, joins, executes, helperVars, poolVars, graphVars, obsVars>>

\* the task is looked up in the registry but left there
ExecuteSubmitKeepsTask ==
    /\ dpc = "submit"
    /\ LET group == task_groups[gi]
       IN IF ti > Len(group)
            THEN /\ dpc' = "wait_lock"
                 /\ UNCHANGED <<ti, queue, submitted, late>>
            ELSE /\ ti' = ti + 1
                 /\ UNCHANGED dpc
                 /\ IF group[ti] \in tasks
                      THEN PoolExecute(group[ti], Len(completion))
                      ELSE UNCHANGED <<queue, submitted, late>>
    /\ UNCHANGED <<size, rlock, workers, wpc, wjob, tasks, action, next_id, dependencies,
                   reverse_dependencies, task_groups, gi, completion, exec_result,
                   ji, in_drop, joins, executes, helperVars, started, finished, panicked, signaled>>

\* execute, lines 244-252: one iteration of `for task_id in group`: a task still in
\* the registry is removed and its wrapper sent to the pool
ExecuteSubmit ==
    /\ dpc = "submit"
    /\ LET group == task_groups[gi]
       IN IF ti > Len(group)
            THEN /\ dpc' = "wait_lock"
                 /\ UNCHANGED <<ti, tasks, queue, submitted, late>>
            ELSE /\ ti' = ti + 1
                 /\ UNCHANGED dpc
                 /\ IF group[ti] \in tasks
                      THEN /\ tasks' = tasks \ {group[ti]}
                           /\ PoolExecute(group[ti], Len(completion))
                      ELSE UNCHANGED <<tasks, queue, submitted, late>>
    /\ UNCHANGED <<size, rlock, workers, wpc, wjob, action, next_id, dependencies,
                   reverse_dependencies, task_groups, gi, completion, exec_result,
                   ji, in_drop, joins, executes, helperVars, started, finished, panicked, signaled>>

\* wait_for_completion returns: execute goes on to the next group
NextGroup ==
    /\ gi' = gi + 1
    /\ dpc' = "group"

\* wait_for_completion, lines 49-55, and the re-lock inside condvar.wait (line 57):
\* a poisoned lock makes wait_for_completion return early
WaitLock ==
    /\ dpc = "wait_lock"
    /\ LET b == Len(completion)
       IN /\ completion[b].lock = NoThread
          /\ IF completion[b].poisoned
               THEN /\ NextGroup
                    /\ UNCHANGED completion
               ELSE /\ completion' = [completion EXCEPT ![b].lock = Driver]
                    /\ dpc' = "wait_check"
                    /\ UNCHANGED gi
    /\ UNCHANGED <<task_groups, ti, exec_result, ji, in_drop, joins, executes, helperVars, poolVars, graphVars, obsVars>>

\* the counter is tested and the lock released before the thread is registered
\* with the condition variable: a notification sent in between is missed
WaitCheckUnregistered ==
    /\ dpc = "wait_check"
    /\ LET b == Len(completion)
       IN IF completion[b].count > 0
            THEN /\ completion' = [completion EXCEPT ![b].lock = NoThread]
                 /\ dpc' = "cv_wait"
                 /\ UNCHANGED gi
            ELSE /\ completion' = [completion EXCEPT ![b].lock = NoThread]
                 /\ NextGroup
    /\ UNCHANGED <<task_groups, ti, exec_result, ji, in_drop, joins, executes, helperVars, poolVars, graphVars, obsVars>>

\* the wait loop waits once before it tests the counter
WaitCheckAlways ==
    /\ dpc = "wait_check"
    /\ LET b == Len(completion)
       IN IF completion[b].count >= 0
            THEN /\ completion' = [completion EXCEPT ![b].lock = NoThread,
                                                     ![b].waiting = @ \cup {Driver}]
                 /\ dpc' = "cv_wait"
                 /\ UNCHANGED gi
            ELSE /\ completion' = [completion EXCEPT ![b].lock = NoThread]
                 /\ NextGroup
    /\ UNCHANGED <<task_groups, ti, exec_result, ji, in_drop, joins, executes, helperVars, poolVars, graphVars, obsVars>>

\* the wait loop ends one signal early
WaitCheckEarly ==
    /\ dpc = "wait_check"
    /\ LET b == Len(completion)
       IN IF completion[b].count > 1
            THEN /\ completion' = [completion EXCEPT ![b].lock = NoThread,
                                                     ![b].waiting = @ \cup {Driver}]
                 /\ dpc' = "cv_wait"
                 /\ UNCHANGED gi
            ELSE /\ completion' = [completion EXCEPT ![b].lock = NoThread]
                 /\ NextGroup
    /\ UNCHANGED <<task_groups, ti, exec_result, ji, in_drop, joins, executes, helperVars, poolVars, graphVars, obsVars>>

\* wait_for_completion, lines 56-64: `while *count > 0 { condvar.wait }`; wait
\* releases the lock and blocks atomically; at zero the guard is dropped
WaitCheck ==
    /\ dpc = "wait_check"
    /\ LET b == Len(completion)
       IN IF completion[b].count > 0
            THEN /\ completion' = [completion EXCEPT ![b].lock = NoThread,
                                                     ![b].waiting = @ \cup {Driver}]
                 /\ dpc' = "cv_wait"
                 /\ UNCHANGED gi
            ELSE /\ completion' = [completion EXCEPT ![b].lock = NoThread]
                 /\ NextGroup
    /\ UNCHANGED <<task_groups, ti, exec_result, ji, in_drop, joins, executes, helperVars, poolVars, graphVars, obsVars>>

\* Condvar::wait may wake without a notification
SpuriousWakeup ==
    /\ dpc = "cv_wait"
    /\ completion' = [completion EXCEPT ![Len(completion)].waiting = @ \ {Driver}]
    /\ dpc' = "wait_lock"
    /\ UNCHANGED <<task_groups, gi, ti, exec_result, ji, in_drop, joins, executes, helperVars, poolVars, graphVars, obsVars>>

\* a further execute() on a graph whose execute() has returned (execute takes
\* &mut self and leaves the graph usable)
ExecuteAgain ==
    /\ dpc = "done"
    /\ executes < MaxExecutes
    /\ PlanGroups

\* the count mutex of the current group's TaskCompletion becomes poisoned (a
\* holder of its guard panicked and released it): the state the Err branches
\* of task_completed (lines 33-36) and wait_for_completion (lines 51-54, 59-62)
\* handle; a thread blocked in condvar.wait is not woken by it
PoisonLock ==
    /\ dpc \in {"submit", "wait_lock", "cv_wait"}
    /\ LET b == Len(completion)
       IN /\ completion[b].lock = NoThread
          /\ ~completion[b].poisoned
          /\ completion' = [completion EXCEPT ![b].poisoned = TRUE]
    /\ UNCHANGED <<task_groups, gi, ti, exec_result, ownerVars, helperVars, poolVars, graphVars, obsVars>>

\* ------------------------------------------------------------------ ThreadPool::join, Drop
\* a direct user of the pool calls execute(f); f returns or panics
UserExecute(act) ==
    /\ dpc = "pool"
    /\ submitted < MaxJobs
    /\ action' = [action EXCEPT ![submitted] = act]
    /\ PoolExecute(submitted, 0)
    /\ UNCHANGED <<size, rlock, workers, wpc, wjob, tasks, next_id, dependencies,
                   reverse_dependencies, execVars, ownerVars, helperVars,
                   started, finished, panicked, signaled>>

\* a direct user of the pool calls join()
UserJoin ==
    /\ dpc = "pool"
    /\ joins < MaxJoins
    /\ joins' = joins + 1
    /\ dpc' = "join_send"
    /\ ji' = 1
    /\ UNCHANGED <<in_drop, executes, helperVars, poolVars, graphVars, execVars, obsVars>>

\* Drop for ThreadPool (lines 101-105), run when the pool, or the TaskGraph that
\* owns it (after its execute() has returned), goes out of scope: self.join()
DropPool ==
    /\ dpc \in {"pool", "done"}
    /\ in_drop' = TRUE
    /\ dpc' = "join_send"
    /\ ji' = 1
    /\ UNCHANGED <<joins, executes, helperVars, poolVars, graphVars, execVars, obsVars>>

\* join, lines 58-60: one Terminate per element of self.workers
JoinSend ==
    /\ dpc = "join_send"
    /\ IF ji <= size
         THEN /\ queue' = Send(queue, Terminate)
              /\ ji' = ji + 1
              /\ UNCHANGED dpc
         ELSE /\ ji' = 1
              /\ dpc' = "join_take"
              /\ UNCHANGED queue
    /\ UNCHANGED <<size, rlock, workers, wpc, wjob, in_drop, joins, executes, helperVars, graphVars, execVars, obsVars>>

\* join reads the handle without taking it out of the worker
JoinTakeKeepsHandle ==
    /\ dpc = "join_take"
    /\ IF ji > size
         THEN /\ dpc' = IF in_drop THEN "dropped" ELSE "pool"
              /\ UNCHANGED <<ji, workers>>
         ELSE IF workers[ji]
                THEN /\ dpc' = "join_thread"
                     /\ UNCHANGED <<ji, workers>>
                ELSE /\ ji' = ji + 1
                     /\ UNCHANGED <<dpc, workers>>
    /\ UNCHANGED <<size, queue, rlock, wpc, wjob, in_drop, joins, executes, helperVars, graphVars, execVars, obsVars>>

\* join, lines 62-63: worker.thread.take(); after the last worker join returns
JoinTake ==
    /\ dpc = "join_take"
    /\ IF ji > size
         THEN /\ dpc' = IF in_drop THEN "dropped" ELSE "pool"
              /\ UNCHANGED <<ji, workers>>
         ELSE IF workers[ji]
                THEN /\ workers' = [workers EXCEPT ![ji] = FALSE]
                     /\ dpc' = "join_thread"
                     /\ UNCHANGED ji
                ELSE /\ ji' = ji + 1
                     /\ UNCHANGED <<dpc, workers>>
    /\ UNCHANGED <<size, queue, rlock, wpc, wjob, in_drop, joins, executes, helperVars, graphVars, execVars, obsVars>>

\* join goes on without waiting for the worker thread to end
JoinThreadNoWait ==
    /\ dpc = "join_thread"
    /\ IF wpc[ji] = "panicked"
         THEN /\ dpc' = "panicked"
              /\ UNCHANGED ji
         ELSE /\ dpc' = "join_take"
              /\ ji' = ji + 1
    /\ UNCHANGED <<in_drop, joins, executes, helperVars, poolVars, graphVars, execVars, obsVars>>

\* join, line 64: thread.join().unwrap() blocks until the worker thread has
\* ended and panics when that thread ended by a panic
JoinThread ==
    /\ dpc = "join_thread"
    /\ wpc[ji] \in {"exited", "panicked"}
    /\ IF wpc[ji] = "panicked"
         THEN /\ dpc' = "panicked"
              /\ UNCHANGED ji
         ELSE /\ dpc' = "join_take"
              /\ ji' = ji + 1
    /\ UNCHANGED <<in_drop, joins, executes, helperVars, poolVars, graphVars, execVars, obsVars>>

\* ------------------------------------------------------------------ specifications
\* ThreadPool::new(size) (lines 26-43): `size` workers, each entering its loop
PoolNew ==
    /\ size \in 1..MaxWorkers
    /\ queue = <<>>
    /\ rlock = NoThread
    /\ workers = [w \in Workers |-> TRUE]
    /\ wpc = [w \in Workers |-> "lock"]
    /\ wjob = [w \in Workers |-> NoMsg]

\* TaskGraph::new (lines 107-115); no execute() has run
GraphNew ==
    /\ tasks = {}
    /\ action = [id \in JobIds |-> "none"]
    /\ next_id = 0
    /\ dependencies = <<>>
    /\ reverse_dependencies = <<>>
    /\ task_groups = <<>>
    /\ gi = 0
    /\ ti = 0
    /\ completion = <<>>
    /\ exec_result = "none"

Fresh ==
    /\ ji = 0
    /\ in_drop = FALSE
    /\ joins = 0
    /\ executes = 0
    /\ hpc = "none"
    /\ hjob = NoMsg
    /\ submitted = 0
    /\ late = {}
    /\ started = [id \in JobIds |-> 0]
    /\ finished = {}
    /\ panicked = {}
    /\ signaled = [id \in JobIds |-> 0]

\* a TaskGraph built on a new pool
Init == PoolNew /\ GraphNew /\ Fresh /\ dpc = "building"

\* a new pool used directly
PoolInit == PoolNew /\ GraphNew /\ Fresh /\ dpc = "pool"

\* the steps of the thread inside TaskGraph::execute()
ExecuteStep == ExecuteGroup \/ ExecuteSubmit \/ WaitLock \/ WaitCheck

Next ==
    \/ \E act \in {"ok", "panic"} : add_task(act)
    \/ \E t, d \in TaskIds : add_dependency(t, d)
    \/ ExecutePlan
    \/ ExecuteGroup
    \/ ExecuteSubmit
    \/ WaitLock
    \/ WaitCheck
    \/ SpuriousWakeup
    \/ DropPool
    \/ JoinSend
    \/ JoinTake
    \/ JoinThread
    \/ \E w \in Workers : WorkerLock(w)
    \/ \E w \in Workers : WorkerRecv(w)
    \/ \E w \in Workers : JobReturns(w)
    \/ \E w \in Workers : JobPanics(w)
    \/ \E w \in Workers : TaskCompletedLock(w)
    \/ \E w \in Workers : TaskCompleted(w)

Spec == Init /\ [][Next]_vars

PoolNext ==
    \/ \E act \in {"ok", "panic"} : UserExecute(act)
    \/ UserJoin
    \/ DropPool
    \/ JoinSend
    \/ JoinTake
    \/ JoinThread
    \/ \E w \in Workers : WorkerLock(w)
    \/ \E w \in Workers : WorkerRecv(w)
    \/ \E w \in Workers : JobReturns(w)
    \/ \E w \in Workers : JobPanics(w)

PoolSpec == PoolInit /\ [][PoolNext]_vars

\* One TaskGraph::execute() on a graph whose actions all return and whose edges
\* name ids 0..MaxTasks-1, under fair scheduling: the thread inside execute()
\* and every worker thread keep taking steps, and a thread waiting for the
\* TaskCompletion mutex gets it when it is released again and again.
FairNext ==
    \/ add_task("ok")
    \/ \E t, d \in 0..(MaxTasks - 1) : add_dependency(t, d)
    \/ ExecutePlan
    \/ ExecuteGroup
    \/ ExecuteSubmit
    \/ WaitLock
    \/ WaitCheck
    \/ SpuriousWakeup
    \/ \E w \in Workers : WorkerLock(w)
    \/ \E w \in Workers : WorkerRecv(w)
    \/ \E w \in Workers : JobReturns(w)
    \/ \E w \in Workers : TaskCompletedLock(w)
    \/ \E w \in Workers : TaskCompleted(w)

Fairness ==
    /\ WF_vars(ExecuteStep)
    /\ \A w \in 1..MaxWorkers :
          /\ WF_vars(w \in Workers /\ (WorkerLock(w) \/ WorkerRecv(w) \/ JobReturns(w) \/ TaskCompleted(w)))
          /\ SF_vars(w \in Workers /\ TaskCompletedLock(w))

FairSpec == Init /\ [][FairNext]_vars /\ Fairness

\* ThreadPool::new without the assert on size
ThreadPoolNewUnchecked(n) ==
    /\ dpc = "new"
    /\ size' = n
    /\ queue' = <<>>
    /\ rlock' = NoThread
    /\ workers' = [w \in 1..n |-> TRUE]
    /\ wpc' = [w \in 1..n |-> "lock"]
    /\ wjob' = [w \in 1..n |-> NoMsg]
    /\ dpc' = "pool"
    /\ UNCHANGED <<ji, in_drop, joins, executes, helperVars, graphVars, execVars, obsVars>>

\* ThreadPool::new(n), lines 26-43: assert!(size > 0) panics before the channel
\* is created and before the loop that spawns the workers; otherwise n workers
\* are spawned, each entering its loop, and the pool is returned
ThreadPoolNew(n) ==
    /\ dpc = "new"
    /\ size' = n
    /\ IF n > 0
         THEN /\ queue' = <<>>
              /\ rlock' = NoThread
              /\ workers' = [w \in 1..n |-> TRUE]
              /\ wpc' = [w \in 1..n |-> "lock"]
              /\ wjob' = [w \in 1..n |-> NoMsg]
              /\ dpc' = "pool"
         ELSE /\ dpc' = "panicked"
              /\ UNCHANGED <<queue, rlock, workers, wpc, wjob>>
    /\ UNCHANGED <<ji, in_drop, joins, executes, helperVars, graphVars, execVars, obsVars>>

\* before ThreadPool::new is called: no channel, no worker thread
NewInit ==
    /\ size = 0
    /\ queue = <<>>
    /\ rlock = NoThread
    /\ workers = <<>>
    /\ wpc = <<>>
    /\ wjob = <<>>
    /\ GraphNew /\ Fresh /\ dpc = "new"

\* ThreadPool::new with any argument, then the pool used directly
NewNext ==
    \/ \E n \in 0..MaxWorkers : ThreadPoolNew(n)
    \/ PoolNext

NewSpec == NewInit /\ [][NewNext]_vars

\* tests::test_task_graph (lines 265-282): ThreadPool::new(4), five add_task
\* calls (ids 0..4 for task1..task5, actions that print and return), then
\* add_dependency(task_2, task_1), (task_3, task_2), (task_4, task_1),
\* (task_5, task_3), (task_5, task_4); execute() has not run yet
ScenarioPoolSize == 4

ScenarioInit ==
    /\ size = ScenarioPoolSize
    /\ queue = <<>>
    /\ rlock = NoThread
    /\ workers = [w \in Workers |-> TRUE]
    /\ wpc = [w \in Workers |-> "lock"]
    /\ wjob = [w \in Workers |-> NoMsg]
    /\ tasks = 0..4
    /\ action = [id \in JobIds |-> IF id \in 0..4 THEN "ok" ELSE "none"]
    /\ next_id = 5
    /\ dependencies = (1 :> <<0>>) @@ (2 :> <<1>>) @@ (3 :> <<0>>) @@ (4 :> <<2, 3>>)
    /\ reverse_dependencies = (0 :> <<1, 3>>) @@ (1 :> <<2>>) @@ (2 :> <<4>>) @@ (3 :> <<4>>)
    /\ task_groups = <<>>
    /\ gi = 0
    /\ ti = 0
    /\ completion = <<>>
    /\ exec_result = "none"
    /\ Fresh
    /\ dpc = "building"

\* graph.execute() of the test, then the graph and its pool go out of scope
ScenarioNext ==
    \/ ExecutePlan
    \/ ExecuteGroup
    \/ ExecuteSubmit
    \/ WaitLock
    \/ WaitCheck
    \/ SpuriousWakeup
    \/ DropPool
    \/ JoinSend
    \/ JoinTake
    \/ JoinThread
    \/ \E w \in Workers : WorkerLock(w)
    \/ \E w \in Workers : WorkerRecv(w)
    \/ \E w \in Workers : JobReturns(w)
    \/ \E w \in Workers : TaskCompletedLock(w)
    \/ \E w \in Workers : TaskCompleted(w)

ScenarioSpec == ScenarioInit /\ [][ScenarioNext]_vars

\* a TaskGraph is built and execute() computes its plan (topological_sort and
\* group_tasks, lines 239-240), nothing being dispatched yet
PlanNext ==
    \/ \E act \in {"ok", "panic"} : add_task(act)
    \/ \E t, d \in TaskIds : add_dependency(t, d)
    \/ ExecutePlan

PlanSpec == Init /\ [][PlanNext]_vars

\* a TaskGraph is built and executed, and execute() is called again on it
AgainNext ==
    \/ Next
    \/ ExecuteAgain

AgainSpec == Init /\ [][AgainNext]_vars

\* a TaskGraph is built and executed; afterwards tasks and edges are added and
\* execute() is called again; the actions return, the graph and its pool stay
\* in scope
ReuseNext ==
    \/ add_task("ok")
    \/ \E t, d \in TaskIds : add_dependency(t, d)
    \/ ExecutePlan
    \/ ExecuteGroup
    \/ ExecuteSubmit
    \/ WaitLock
    \/ WaitCheck
    \/ SpuriousWakeup
    \/ add_task_later("ok")
    \/ \E t, d \in TaskIds : add_dependency_later(t, d)
    \/ ExecuteAgain
    \/ \E w \in Workers : WorkerLock(w)
    \/ \E w \in Workers : WorkerRecv(w)
    \/ \E w \in Workers : JobReturns(w)
    \/ \E w \in Workers : TaskCompletedLock(w)
    \/ \E w \in Workers : TaskCompleted(w)

ReuseSpec == Init /\ [][ReuseNext]_vars

\* one TaskGraph::execute() on a graph whose actions all return, during which
\* a TaskCompletion's mutex may become poisoned
FaultNext ==
    \/ FairNext
    \/ PoisonLock

FaultSpec == Init /\ [][FaultNext]_vars

\* ------------------------------------------------------------------ execute_job_from_queue
\* ThreadPool::get_receiver (lines 69-71): a clone of the Arc of the receiver is
\* handed to another thread
get_receiver ==
    /\ dpc = "pool"
    /\ hpc = "none"
    /\ hpc' = "idle"
    /\ UNCHANGED <<hjob, poolVars, graphVars, execVars, ownerVars, obsVars>>

\* that thread calls execute_job_from_queue(receiver)
execute_job_from_queue ==
    /\ hpc = "idle"
    /\ hpc' = "lock"
    /\ UNCHANGED <<hjob, poolVars, graphVars, execVars, ownerVars, obsVars>>

\* execute_job_from_queue, line 77: receiver.lock().unwrap() blocks until the
\* receiver mutex is free
DrainLock ==
    /\ hpc = "lock"
    /\ rlock = NoThread
    /\ rlock' = Helper
    /\ hpc' = "try_recv"
    /\ UNCHANGED <<size, queue, workers, wpc, wjob, hjob, graphVars, execVars, ownerVars, obsVars>>

\* execute_job_from_queue, lines 78-96: try_recv() under the lock, the guard
\* dropped at the end of the block; an empty (or disconnected) channel and a
\* Terminate message both leave the loop, the Terminate being taken out of
\* the channel
DrainTryRecv ==
    /\ hpc = "try_recv"
    /\ rlock' = NoThread
    /\ IF queue = <<>>
         THEN /\ hpc' = "idle"
              /\ UNCHANGED <<queue, hjob, started>>
         ELSE /\ queue' = Tail(queue)
              /\ IF Head(queue).kind = "Job"
                   THEN /\ hpc' = "run"
                        /\ hjob' = Head(queue)
                        /\ started' = [started EXCEPT ![Head(queue).id] = @ + 1]
                   ELSE /\ hpc' = "idle"
                        /\ UNCHANGED <<hjob, started>>
    /\ UNCHANGED <<size, workers, wpc, wjob, graphVars, execVars, ownerVars,
                   submitted, late, finished, panicked, signaled>>

\* execute_job_from_queue, lines 82-84: job() returns and the loop goes on
DrainJobReturns ==
    /\ hpc = "run"
    /\ action[hjob.id] = "ok"
    /\ finished' = finished \cup {hjob.id}
    /\ hpc' = "lock"
    /\ hjob' = NoMsg
    /\ UNCHANGED <<poolVars, graphVars, execVars, ownerVars,
                   submitted, late, started, panicked, signaled>>

\* job() panics: the calling thread unwinds out of execute_job_from_queue
DrainJobPanics ==
    /\ hpc = "run"
    /\ action[hjob.id] = "panic"
    /\ panicked' = panicked \cup {hjob.id}
    /\ hpc' = "panicked"
    /\ hjob' = NoMsg
    /\ UNCHANGED <<poolVars, graphVars, execVars, ownerVars,
                   submitted, late, started, finished, signaled>>

\* a pool used directly while another thread, given the receiver, calls
\* execute_job_from_queue any number of times
DrainNext ==
    \/ PoolNext
    \/ get_receiver
    \/ execute_job_from_queue
    \/ DrainLock
    \/ DrainTryRecv
    \/ DrainJobReturns
    \/ DrainJobPanics

DrainSpec == PoolInit /\ [][DrainNext]_vars

\* ------------------------------------------------------------------ vocabulary of the properties
\* ids add_task has issued on this graph
Issued == 0..(next_id - 1)

\* prerequisites of t, as recorded by add_dependency
Prerequisites(t) == Range(Get(dependencies, t))

\* every id named by an edge was issued by add_task on this graph
KnownIds == \A d \in DOMAIN dependencies : d \in Issued /\ Prerequisites(d) \subseteq Issued

RECURSIVE Closure(_, _)
Closure(S, n) == IF n = 0 THEN S ELSE Closure(S \cup UNION {Prerequisites(t) : t \in S}, n - 1)

\* direct and indirect prerequisites of t
AllPrerequisites(t) == Closure(Prerequisites(t), MaxTasks + 1)

Acyclic == \A t \in DOMAIN dependencies : t \notin AllPrerequisites(t)

\* the level of the data model: 0 without prerequisites, else 1 + the maximum
\* level of the prerequisites (acyclic graphs only)
RECURSIVE RefLevel(_)
RefLevel(t) == IF Prerequisites(t) = {} THEN 0 ELSE 1 + Max({RefLevel(p) : p \in Prerequisites(t)})

\* wrappers of completion b that were sent to the pool and have not yet finished
\* task_completed()
Pending(b) ==
    Cardinality({i \in 1..Len(queue) : queue[i].completion = b})
    + Cardinality({w \in Workers : wjob[w].completion = b})

\* tasks execute() has removed from the registry and sent to the pool
Dispatched == Issued \ tasks

\* join() calls begun so far, the one run by Drop included
JoinsBegun == joins + (IF in_drop THEN 1 ELSE 0)

\* the last join() begun has returned to its caller
JoinReturned == dpc = "dropped" \/ (dpc = "pool" /\ joins > 0)

\* Terminate messages waiting in the channel
TerminatesQueued == Cardinality({i \in 1..Len(queue) : queue[i].kind = "Terminate"})

\* workers that left their loop on a Terminate message
Exited == {w \in Workers : wpc[w] = "exited"}

\* how often task t occurs in level group l of the plan
Occurrences(t, l) == Cardinality({k \in 1..Len(task_groups[l]) : task_groups[l][k] = t})

\* the levels group_tasks computes when the zero in-degree keys are visited in
\* the order seeds
LevelsUnder(seeds) == LevelsOf(topological_sort(seeds).sorted).levels

\* task_completed() calls that have finished on the TaskCompletion of group b
\* (first execute(): completion[b] belongs to task_groups[b])
SignalsOn(b) == Cardinality({t \in Range(task_groups[b]) : signaled[t] > 0})

\* the most TaskCompletion objects one execute() creates: one per level, one
\* for the empty group of an empty plan
MaxBarriers == MaxTasks + 1

\* ------------------------------------------------------------------ claims
\* C1: on an acyclic graph whose edges name issued ids, whenever the action of a
\* dependent has started, the action of each of its prerequisites has already
\* returned, whatever the pool size and the interleaving of the workers.
C1_PrerequisiteCompletesFirst ==
    (Acyclic /\ KnownIds) =>
        \A d \in DOMAIN dependencies : \A p \in Prerequisites(d) :
            started[d] > 0 => p \in finished

\* C1 witness: with two workers, a dependent has started after its prerequisite
C1_Witness ==
    /\ Acyclic /\ KnownIds /\ size = 2
    /\ \E d \in DOMAIN dependencies : started[d] > 0 /\ Prerequisites(d) \subseteq finished

\* C2: on an acyclic graph whose edges name issued ids no action is started
\* twice, and when execute() has returned every registered task's action has
\* been started once and has returned.
C2_EveryTaskExactlyOnce ==
    (Acyclic /\ KnownIds) =>
        /\ \A t \in JobIds : started[t] <= 1
        /\ exec_result = "returned" =>
               \A t \in Issued : started[t] = 1 /\ t \in finished /\ t \notin tasks

\* C2 witness: execute() has returned on a graph of MaxTasks tasks with MaxEdges edges
C2_Witness ==
    /\ Acyclic /\ KnownIds /\ exec_result = "returned"
    /\ next_id = MaxTasks /\ NumEdges = MaxEdges
    /\ \A t \in Issued : started[t] = 1

\* C3: on an acyclic graph whose edges name issued ids, whenever a task has
\* started, every task of a strictly lower level has finished task_completed().
C3_LevelBarrier ==
    (Acyclic /\ KnownIds) =>
        \A s, t \in Issued :
            (RefLevel(s) < RefLevel(t) /\ started[t] > 0) => signaled[s] > 0

\* C3 witness: a task has started above a lower-level task it does not depend on
C3_Witness ==
    /\ Acyclic /\ KnownIds
    /\ \E s, t \in Issued :
          /\ RefLevel(s) < RefLevel(t)
          /\ s \notin AllPrerequisites(t)
          /\ started[t] > 0 /\ signaled[s] > 0

\* C4: once execute() has planned an acyclic graph whose edges name issued ids
\* and whose actions all return, it eventually returns, for every pool size,
\* under fair scheduling.
C4_ExecuteReturns ==
    (dpc = "group" /\ Acyclic /\ KnownIds /\ \A t \in Issued : action[t] = "ok")
        ~> (exec_result = "returned")

\* C4 witness: execute() has returned on an acyclic graph of MaxTasks tasks (more
\* than one worker can take) with MaxEdges edges, on a pool of one worker
C4_Witness ==
    /\ Acyclic /\ KnownIds /\ exec_result = "returned"
    /\ size = 1 /\ next_id = MaxTasks /\ NumEdges = MaxEdges
    /\ \A t \in Issued : action[t] = "ok" /\ t \in finished

\* C5: when execute() has returned, every task it sent to the pool has finished
\* task_completed(), also when a group holds more tasks than the pool has workers.
C5_ReturnsAfterAllSignaled ==
    exec_result = "returned" => \A t \in Dispatched : signaled[t] = 1

\* C5 witness: pool size 1, MaxTasks independent tasks in one group, execute() returned
C5_Witness ==
    /\ size = 1 /\ exec_result = "returned"
    /\ next_id = MaxTasks /\ NumEdges = 0 /\ Len(task_groups) = 1
    /\ Dispatched = Issued /\ Cardinality(Issued) > size

\* C6: on a graph whose dependency relation has a cycle (a self-dependency
\* included), execute() ends with a hard error: it never returns normally,
\* leaving the tasks it could not schedule unexecuted.
C6_CycleIsHardError ==
    (KnownIds /\ ~Acyclic) => exec_result # "returned"

\* the driver is blocked on a TaskCompletion whose counter exceeds the number of
\* wrappers that can still decrement it
BarrierStuck ==
    /\ dpc = "cv_wait"
    /\ completion[Len(completion)].count > Pending(Len(completion))

\* C7: when an edge names an id add_task never issued on this graph, execute()
\* ends with a hard error: it neither returns normally with tasks dropped nor
\* blocks on a barrier no wrapper will clear.
C7_UnknownIdIsHardError ==
    (dpc # "building" /\ ~KnownIds) => (exec_result # "returned" /\ ~BarrierStuck)

\* C8: when a task's action has panicked (edges naming issued ids only), its
\* wrapper still signals the group's barrier: no TaskCompletion is left with a
\* counter above the number of wrappers that can still decrement it.
C8_PanicStillSignals ==
    (KnownIds /\ panicked # {}) =>
        \A b \in 1..Len(completion) : completion[b].count <= Pending(b)

\* C9: a panicking job does not end the worker thread that ran it: no worker
\* thread is ever ended by a panic, and join() never panics on a worker's handle.
C9_WorkersSurvivePanic ==
    /\ \A w \in Workers : wpc[w] # "panicked"
    /\ dpc # "panicked"

\* C10: a job passed to ThreadPool::execute after a join() has begun is refused:
\* it is never placed in the queue and never started.
C10_LateExecuteRefused ==
    \A id \in late :
        /\ \A i \in 1..Len(queue) : queue[i].id # id
        /\ started[id] = 0

\* C11: each join() sends one Terminate per worker (the Terminates sent so far
\* are those still queued plus one per exited worker, no worker taking a second
\* one), and when a join() has returned every worker thread has left its loop
\* and its handle has been joined: none is running or blocked on the queue.
C11_JoinTerminatesEveryWorker ==
    /\ dpc = "join_send" =>
           TerminatesQueued + Cardinality(Exited) = size * (JoinsBegun - 1) + (ji - 1)
    /\ (dpc \in {"join_take", "join_thread"} \/ JoinReturned) =>
           TerminatesQueued + Cardinality(Exited) = size * JoinsBegun
    /\ JoinReturned => \A w \in Workers : wpc[w] = "exited" /\ ~workers[w]

\* C11 witness: the first join() of a pool of two workers has returned after
\* jobs were run, every Terminate consumed
C11_Witness ==
    /\ dpc = "pool" /\ joins = 1 /\ size = 2
    /\ finished # {} /\ TerminatesQueued = 0
    /\ \A w \in Workers : wpc[w] = "exited"

\* C12: at the step where a join() (explicit, or the one run by Drop) returns,
\* every job passed to execute() before that join() was called has been run to
\* completion.
C12_JoinWaitsForAllJobs ==
    [][(dpc = "join_take" /\ dpc' \in {"pool", "dropped"}) =>
           \A id \in 0..(submitted - 1) : id \in finished]_vars

\* C13: once a join() has returned, a further join() (explicit, or the one run
\* by Drop) never waits for a thread and never panics, and the worker threads
\* stay as the first join() left them: all exited, all handles taken.
C13_SecondJoinIsSafe ==
    JoinsBegun >= 2 =>
        /\ dpc \notin {"join_thread", "panicked"}
        /\ \A w \in Workers : wpc[w] = "exited" /\ ~workers[w]

\* C13 witness: Drop's join() has returned after an explicit join() of a pool
\* of two workers that had run a job
C13_Witness ==
    /\ dpc = "dropped" /\ joins >= 1 /\ size = 2 /\ finished # {}

\* C14: whenever the owner of the pool is about to call execute(f), the call can
\* complete at once, whatever the workers are doing and whatever the queue
\* holds, and a step that submits a job only appends it to the queue: no worker
\* and no lock changes with it.
C14_ExecuteNeverBlocks ==
    /\ [](dpc = "pool" /\ submitted < MaxJobs => ENABLED UserExecute("ok"))
    /\ [][submitted' # submitted =>
             /\ queue' = Append(queue, JobMsg(submitted, 0))
             /\ UNCHANGED <<rlock, workers, wpc, wjob, dpc>>]_vars

\* C14 witness: a job was accepted while the only worker was busy running a job
\* and another job was already queued
C14_Witness ==
    /\ size = 1 /\ wpc[1] = "run" /\ submitted = 3
    /\ Len(queue) = 2 /\ \A i \in 1..Len(queue) : queue[i].kind = "Job"

\* C15: jobs passed to execute() by the owner of the pool (numbered in
\* submission order) leave the queue in that order: when a job has been taken,
\* every job submitted before it has been taken too; on a pool of one worker
\* every job submitted before it has even returned.
C15_FifoPerSubmitter ==
    \A a, b \in 0..(submitted - 1) :
        (a < b /\ started[b] > 0) =>
            /\ started[a] > 0
            /\ size = 1 => a \in finished

\* C15 witness: on two workers the second job has returned while the first,
\* taken before it, is still running
C15_Witness ==
    /\ size = 2 /\ 1 \in finished /\ 0 \notin finished
    /\ \E w \in Workers : wpc[w] = "run" /\ wjob[w].id = 0

\* C16: once ThreadPool::new(n) has been called, either n = 0 and the call
\* panicked with no worker thread and no handle in existence, or n > 0 and the
\* pool has exactly n workers (n handles, n worker threads), never more or fewer.
C16_NewSpawnsSizeOrPanics ==
    dpc # "new" =>
        /\ size = 0 => (dpc = "panicked" /\ workers = <<>> /\ wpc = <<>>)
        /\ size > 0 => (Len(workers) = size /\ Len(wpc) = size)
        /\ (size > 0 /\ submitted = 0 /\ joins = 0 /\ ~in_drop) => dpc # "panicked"

\* C16 witness: ThreadPool::new(0) has panicked
C16_Witness ==
    dpc = "panicked" /\ size = 0 /\ wpc = <<>>

\* C17 (as stated): on a graph with no task, execute() never blocks, creates no
\* TaskCompletion and sends nothing to the pool.
C17_ZeroTaskNoBarrier ==
    (next_id = 0 /\ dpc # "building") =>
        /\ dpc # "cv_wait"
        /\ completion = <<>>
        /\ submitted = 0

\* C17 (amended): on a graph with no task, execute() never blocks and sends
\* nothing to the pool; it creates TaskCompletion objects only for the single
\* empty group group_tasks returns: one, of count 0, once it has returned.
C17_ZeroTaskOneEmptyBarrier ==
    (next_id = 0 /\ dpc # "building") =>
        /\ dpc \notin {"cv_wait", "panicked"}
        /\ submitted = 0
        /\ Len(task_groups) = 1 /\ task_groups[1] = <<>>
        /\ Len(completion) <= 1
        /\ \A b \in 1..Len(completion) : completion[b].count = 0
        /\ exec_result = "returned" => Len(completion) = 1

\* C17 witness: execute() has returned on a graph with no task
C17_Witness ==
    next_id = 0 /\ exec_result = "returned" /\ Len(completion) = 1 /\ submitted = 0

\* C18: in the graph of test_task_graph (T1..T5 = ids 0..4), execute() plans
\* four level groups {T1}, {T2, T4}, {T3}, {T5}, creates one barrier per group
\* (four when it has returned, sized 1, 2, 1, 1, five jobs submitted in all), and
\* T5 starts only when T1..T4 have returned, in every interleaving.
C18_ScenarioA ==
    dpc # "building" =>
        /\ Len(task_groups) = 4
        /\ Range(task_groups[1]) = {0} /\ Len(task_groups[1]) = 1
        /\ Range(task_groups[2]) = {1, 3} /\ Len(task_groups[2]) = 2
        /\ Range(task_groups[3]) = {2} /\ Len(task_groups[3]) = 1
        /\ Range(task_groups[4]) = {4} /\ Len(task_groups[4]) = 1
        /\ Len(completion) <= 4
        /\ exec_result = "returned" => (Len(completion) = 4 /\ submitted = 5)
        /\ started[4] > 0 => (0..3) \subseteq finished

\* C18 witness: execute() of the test graph has returned after four barriers,
\* all five actions having run
C18_Witness ==
    /\ size = ScenarioPoolSize /\ next_id = 5
    /\ exec_result = "returned" /\ Len(completion) = 4
    /\ finished = 0..4

C20_LevelsDeterministic ==
    /\ \A s1, s2 \in Orders(ZeroInDegree) : LevelsUnder(s1) = LevelsUnder(s2)
    /\ dpc = "group" =>
           \A s \in Orders(ZeroInDegree) : \A t \in DOMAIN LevelsUnder(s) :
               /\ LevelsUnder(s)[t] + 1 <= Len(task_groups)
               /\ \A l \in 1..Len(task_groups) :
                     Occurrences(t, l) = IF l = LevelsUnder(s)[t] + 1 THEN 1 ELSE 0

\* C20 witness: a plan was computed for a graph whose zero in-degree keys can
\* be visited in orders that give different sorted sequences, over two levels
C20_Witness ==
    /\ dpc = "group" /\ Len(task_groups) >= 2
    /\ \E s1, s2 \in Orders(ZeroInDegree) :
          topological_sort(s1).sorted # topological_sort(s2).sorted

\* C21: in a second execute() on a graph to which nothing was added since the
\* first one returned, no job is submitted, no action starts, the caller never
\* waits on a barrier and the call does not panic, while the dependency maps
\* keep the edges of the first run.
C21_SecondExecuteRunsNothing ==
    /\ [](executes >= 2 => dpc \notin {"cv_wait", "panicked"})
    /\ [][executes >= 2 =>
             /\ submitted' = submitted
             /\ started' = started
             /\ UNCHANGED <<tasks, dependencies, reverse_dependencies>>]_vars

\* C21 witness: the second execute() has returned on an acyclic graph of
\* MaxTasks tasks and MaxEdges edges, all of them run by the first
C21_Witness ==
    /\ executes = 2 /\ dpc = "done"
    /\ Acyclic /\ KnownIds /\ next_id = MaxTasks /\ NumEdges = MaxEdges
    /\ \A t \in Issued : started[t] = 1

\* C22: once execute() has been called on a graph, Done is terminal: in a later
\* execute() no action starts, whatever add_task / add_dependency calls were
\* made after the first one returned.
C22_DoneIsTerminal ==
    [][executes >= 2 => started' = started]_vars

\* C23: on every TaskCompletion, with workers signalling concurrently and the
\* driver waiting, the counter equals its initial value (the size of the group)
\* minus the number of task_completed() calls finished so far, no wrapper
\* signals twice, and the driver is past the barrier only when the counter is
\* zero, that is after as many signals as the initial count.
C23_NoLostOrDoubleSignal ==
    /\ \A t \in JobIds : signaled[t] <= 1
    /\ \A b \in 1..Len(completion) :
          /\ completion[b].count = Len(task_groups[b]) - SignalsOn(b)
          /\ (b < gi \/ dpc = "done") =>
                (completion[b].count = 0 /\ SignalsOn(b) = Len(task_groups[b]))

\* C23 witness: two workers are inside task_completed() on the same barrier,
\* one holding its lock and one waiting for it, while the driver is blocked
C23_Witness ==
    /\ dpc = "cv_wait" /\ size = 2
    /\ \E v, w \in Workers :
          /\ wpc[v] = "signal" /\ wpc[w] = "signal_lock"
          /\ wjob[v].completion = wjob[w].completion
          /\ completion[wjob[v].completion].count = 2

\* C24: under fair scheduling, whenever the counter of a TaskCompletion is zero
\* the driver eventually leaves wait_for_completion() on it (execute() moves
\* past that group), whether the last signal came before the driver's test of
\* the counter, or after it had blocked in condvar.wait.
C24_NoLostWakeup ==
    \A b \in 1..MaxBarriers :
        (Len(completion) >= b /\ completion[b].count = 0) ~> (gi > b)

\* C24 witness: the driver is blocked in condvar.wait while the worker that
\* will make the last signal holds the lock
C24_Witness ==
    /\ dpc = "cv_wait"
    /\ LET b == Len(completion)
       IN /\ Driver \in completion[b].waiting
          /\ completion[b].count = 1
          /\ \E w \in Workers : wpc[w] = "signal" /\ wjob[w].completion = b

\* C25: the driver enters condvar.wait only at a moment when the counter is
\* above zero, and a counter never grows: a wait_for_completion() called on a
\* TaskCompletion whose counter is zero (every signal arrived earlier, or the
\* group is empty) returns without waiting on the condition variable.
C25_ZeroCounterReturnsAtOnce ==
    /\ [][(dpc # "cv_wait" /\ dpc' = "cv_wait") =>
             completion[Len(completion)].count > 0]_vars
    /\ [][\A b \in 1..Len(completion) :
             completion'[b].count <= completion[b].count]_vars

\* C25 witness: the driver holds the lock inside wait_for_completion() of a
\* group of two tasks whose signals have both arrived
C25_Witness ==
    /\ dpc = "wait_check"
    /\ completion[Len(completion)].count = 0
    /\ Len(task_groups[gi]) = 2

\* C26: on an acyclic graph whose edges name issued ids, once the mutex of a
\* group's TaskCompletion is poisoned, the driver is not left blocked on that
\* barrier with its counter above the number of wrappers that can still signal,
\* and execute() does not move past that group before every task of the group
\* has returned.
C26_SyncFailureIsFatal ==
    (Acyclic /\ KnownIds) =>
        \A b \in 1..Len(completion) :
            completion[b].poisoned =>
                /\ ~(b = Len(completion) /\ BarrierStuck)
                /\ gi > b => Range(task_groups[b]) \subseteq finished

\* C27: for every graph add_task / add_dependency can build, once execute() has
\* gone through a group, the initial count of the group's TaskCompletion (the
\* length of the group) equals the number of wrappers submitted for the group
\* (its members taken out of the registry and sent to the pool).
C27_BarrierCountsSubmitted ==
    \A b \in 1..Len(completion) :
        (b < Len(completion) \/ dpc # "submit") =>
            Len(task_groups[b]) = Cardinality(Range(task_groups[b]) \cap Dispatched)

\* C28: on an acyclic graph whose edges name issued ids, for every order in
\* which the zero in-degree tasks are seeded, topological_sort returns a
\* sequence that holds every registered task exactly once and each task after
\* all of its prerequisites.
C28_TopologicalOrder ==
    (Acyclic /\ KnownIds) =>
        \A seeds \in Orders(ZeroInDegree) :
            LET sorted == topological_sort(seeds).sorted
            IN /\ Range(sorted) = tasks
               /\ Len(sorted) = Cardinality(tasks)
               /\ \A i \in 1..Len(sorted) : \A p \in Prerequisites(sorted[i]) :
                     \E j \in 1..(i - 1) : sorted[j] = p

\* C28 witness: execute() has sorted a graph of MaxTasks tasks and MaxEdges
\* edges that has several zero in-degree tasks, hence several seeding orders
C28_Witness ==
    /\ dpc = "group" /\ Acyclic /\ KnownIds
    /\ next_id = MaxTasks /\ NumEdges = MaxEdges
    /\ Cardinality(ZeroInDegree) >= 2

\* the number of entries of the list `l` that equal `x`
CountIn(l, x) == Cardinality({k \in 1..Len(l) : l[k] = x})

\* the edges pushed so far agree in the two maps: p occurs in dependencies[d]
\* as often as d occurs in reverse_dependencies[p]
MapsConsistent ==
    \A d, p \in TaskIds :
        CountIn(Get(dependencies, d), p) = CountIn(Get(reverse_dependencies, p), d)

\* C29: after any sequence of add_dependency calls, for all ids d and p the
\* number of occurrences of p in dependencies[d] equals the number of
\* occurrences of d in reverse_dependencies[p]; and no step of execute() (its
\* planning step or any step taken while it runs) changes either map.
C29_MapsConsistent ==
    /\ []MapsConsistent
    /\ [][(executes' # executes \/ dpc \notin {"building", "done"})
            => UNCHANGED <<dependencies, reverse_dependencies>>]_vars

\* C29 witness: the same edge was added before and after an execute() that
\* returned, and a second execute() has returned since
C29_Witness ==
    /\ dpc = "done" /\ executes = 2
    /\ NumEdges = MaxEdges
    /\ \E d, p \in TaskIds : d # p /\ CountIn(Get(dependencies, d), p) = 2

\* the ids add_task has returned so far: the ids a closure was stored under
Returned == {t \in TaskIds : action[t] # "none"}

\* C30: the ids one graph issues are 0, 1, 2, ... in issue order: the ids
\* returned so far are exactly 0..next_id-1 (so next_id is the number of
\* add_task calls and the k-th call returned k-1), every call returns next_id,
\* an id it never returned before, and advances next_id by one, the registry
\* grows only by such a call, and next_id never moves otherwise, also after
\* execute() has removed tasks from the registry.
C30_IdsIssuedInOrder ==
    /\ [](Returned = 0..(next_id - 1) /\ tasks \subseteq Returned)
    /\ [][next_id' # next_id =>
              /\ next_id' = next_id + 1
              /\ next_id \notin Returned
              /\ tasks' = tasks \cup {next_id}
              /\ Returned' = Returned \cup {next_id}]_vars
    /\ [][~(tasks' \subseteq tasks) => next_id' = next_id + 1]_vars

\* C30 witness: execute() ran and removed the tasks it was given, and the
\* task added afterwards got the next id, not one of the removed ones
C30_Witness ==
    /\ dpc = "done" /\ executes >= 1
    /\ next_id = MaxTasks
    /\ tasks = {MaxTasks - 1}
    /\ \A t \in 0..(MaxTasks - 2) : started[t] = 1

\* C31: add_task and add_dependency only record. A step that issues an id
\* changes neither dependency map, sends nothing to the pool, starts no action
\* and moves no thread; a step that changes a dependency map appends one edge
\* to both maps and changes neither the registry, next_id, the pool nor any
\* thread; and wherever add_dependency can be called it accepts every pair of
\* ids (unknown ids, self-edges, duplicates, edges closing a cycle).
C31_AddsOnlyRecord ==
    /\ [](NumEdges < MaxEdges =>
            \A t, d \in TaskIds :
                /\ dpc = "building" => ENABLED add_dependency(t, d)
                /\ dpc = "done" => ENABLED add_dependency_later(t, d))
    /\ [][next_id' # next_id =>
              UNCHANGED <<dependencies, reverse_dependencies, poolVars, execVars,
                          ownerVars, obsVars>>]_vars
    /\ [][(dependencies' # dependencies \/ reverse_dependencies' # reverse_dependencies) =>
              /\ \E t, d \in TaskIds :
                    /\ dependencies' = PushEntry(dependencies, t, d)
                    /\ reverse_dependencies' = PushEntry(reverse_dependencies, d, t)
              /\ UNCHANGED <<tasks, action, next_id, poolVars, execVars,
                             ownerVars, obsVars>>]_vars

\* C31 witness: a graph under construction holds a self-edge and an edge
\* naming an id add_task never issued, and nothing has reached the pool
C31_Witness ==
    /\ dpc = "building" /\ next_id >= 1
    /\ \E t \in Issued : t \in Prerequisites(t)
    /\ ~KnownIds
    /\ queue = <<>> /\ submitted = 0
    /\ \A w \in Workers : wpc[w] \in {"lock", "recv"}

\* workers running the action of a task (inside job(), before task_completed)
Running == {w \in Workers : wpc[w] = "run"}

\* workers waiting for a message: for the receiver lock or inside recv()
Idle == {w \in Workers : wpc[w] \in {"lock", "recv"}}

\* C32: a worker holds the receiver lock only while it is inside recv(), never
\* while it runs a job or signals a barrier, so whenever a message is queued and
\* some worker is idle, an idle worker can take the lock or receive the message,
\* whatever the other workers are running. (That two actions of one level run
\* at the same time is the reachable state C32_Witness.)
C32_JobsRunOutsideTheLock ==
    /\ \A w \in Workers : rlock = w <=> wpc[w] = "recv"
    /\ (queue # <<>> /\ Idle # {}) =>
          \E w \in Idle : ENABLED WorkerLock(w) \/ ENABLED WorkerRecv(w)

\* C32 witness: in a pool of two workers the actions of the two tasks of one
\* level are running at the same time
C32_Witness ==
    /\ size = 2 /\ dpc \in {"wait_lock", "wait_check", "cv_wait"}
    /\ Len(task_groups[gi]) = 2
    /\ Running = Workers
    /\ wjob[1].completion = gi /\ wjob[2].completion = gi
    /\ wjob[1].id # wjob[2].id

\* C33: execute_job_from_queue never waits for work to arrive: a call that is
\* at its receiver.lock() while the queue is empty can take the lock (and then
\* returns on the empty try_recv), also while pool workers are idle.
C33_DrainNeverBlocks ==
    (hpc = "lock" /\ queue = <<>>) => ENABLED DrainLock

\* workers whose thread has not ended
LiveWorkers == {w \in Workers : wpc[w] \notin {"exited", "panicked"}}

\* C34: every Terminate sent by join() goes to a pool worker, also while
\* execute_job_from_queue drains the same receiver: once join() has sent its
\* Terminates, as many of them are still queued as worker threads are still
\* alive, so that every thread join() waits for ends and join() returns.
C34_TerminatesReachWorkers ==
    dpc \in {"join_take", "join_thread"} =>
        TerminatesQueued >= Cardinality(LiveWorkers)

\* how often job `id` is waiting in the channel
QueuedCopies(id) == Cardinality({i \in 1..Len(queue) : queue[i].kind = "Job" /\ queue[i].id = id})

\* the workers that hold job `id` (received and not yet over)
Holders(id) == {w \in Workers : wjob[w].id = id}

\* C35: in every interleaving of a submitter and the workers, every job sent
\* to the pool is in exactly one place: waiting in the channel, held by exactly
\* one worker, or over; it is started at most once, and only after it was
\* received; the workers running a job run pairwise different jobs, so at most
\* `size` jobs are running.
C35_EachJobToOneWorker ==
    /\ \A id \in 0..(submitted - 1) :
          /\ QueuedCopies(id) + Cardinality(Holders(id))
                + (IF id \in finished \cup panicked THEN 1 ELSE 0) = 1
          /\ started[id] = 1 - QueuedCopies(id)
    /\ \A id \in JobIds : id >= submitted => started[id] = 0
    /\ \A v, w \in Running : v # w => wjob[v].id # wjob[w].id
    /\ Cardinality({wjob[w].id : w \in Running}) <= size

\* C35 witness: both workers of a pool of two are running a job while a third
\* job waits in the channel
C35_Witness ==
    /\ size = 2 /\ Running = Workers
    /\ submitted = 3
    /\ \E id \in 0..2 : QueuedCopies(id) = 1

\* the tasks on a cycle of the dependency relation (a self-dependency included)
OnCycle == {t \in Issued : t \in AllPrerequisites(t)}

\* the tasks on a cycle or downstream of one: a direct or indirect prerequisite
\* is on a cycle
Unschedulable == {t \in Issued : t \in OnCycle \/ AllPrerequisites(t) \cap OnCycle # {}}

Schedulable == Issued \ Unschedulable

C37_InDegreeNeverUnderflows ==
    \A seeds \in Orders(ZeroInDegree) :
        LET st == topological_sort(seeds)
        IN /\ ~st.underflow
           /\ \A i, j \in 1..Len(st.sorted) : i # j => st.sorted[i] # st.sorted[j]

\* C37 witness: execute() has sorted a graph in which the same (dependent,
\* prerequisite) pair of registered tasks was added twice, so that popping the
\* prerequisite decrements the dependent's counter twice
C37_Witness ==
    /\ dpc = "group"
    /\ \E d, p \in tasks :
          /\ d # p /\ CountIn(Get(dependencies, d), p) = 2
          /\ \E l \in 1..Len(task_groups) : d \in Range(task_groups[l])

\* C38: for every graph add_task and add_dependency can build and every
\* sequence topological_sort can return on it, each task of the sequence is
\* preceded by all of its prerequisites, so that group_tasks finds levels[dep]
\* for every prerequisite when it assigns the task's level, and execute()
\* never panics while planning.
C38_LevelsLookupNeverMisses ==
    /\ exec_result # "panicked"
    /\ \A seeds \in Orders(ZeroInDegree) :
          LET sorted == topological_sort(seeds).sorted
          IN /\ ~LevelsOf(sorted).missing
             /\ \A i \in 1..Len(sorted) : \A dep \in Prerequisites(sorted[i]) :
                   \E j \in 1..(i - 1) : sorted[j] = dep

\* C38 witness: execute() has grouped a graph in which a task with two
\* different registered prerequisites got its level from both lookups
C38_Witness ==
    /\ dpc = "group" /\ Len(task_groups) = 2
    /\ \E d \in Range(task_groups[2]) :
          Cardinality(Prerequisites(d)) = 2 /\ Prerequisites(d) = Range(task_groups[1])

\* the wrappers execute() sent to the pool for group b
WrappersOf(b) == Range(task_groups[b]) \cap Dispatched

\* C39: on each level's TaskCompletion the counter never goes below zero (it
\* stays between 0 and the count it was created with, and no more
\* task_completed() calls finish on it than that count), and once the level's
\* wrappers have all been submitted the counter is zero exactly when every one
\* of them has finished task_completed().
C39_CounterZeroIffAllSignaled ==
    \A b \in 1..Len(completion) :
        /\ completion[b].count \in 0..Len(task_groups[b])
        /\ SignalsOn(b) <= Len(task_groups[b])
        /\ (b < Len(completion) \/ dpc # "submit") =>
              (completion[b].count = 0 <=> \A t \in WrappersOf(b) : signaled[t] > 0)

====
